---- MODULE Spec2Model ----
(***************************************************************************)
(* Model of regador_automatico.ino: an Arduino Nano irrigation controller. *)
(* A soil-moisture sample drives a three-state machine (IDLE,              *)
(* RIEGO_ACTIVO, BLOQUEO) that switches one output pin; three settings     *)
(* live in EEPROM and are changed by text commands on the serial line.     *)
(*                                                                         *)
(* uint32_t values (millis(), the two durations, the EEPROM words) are     *)
(* kept at their width: a value is a record [hi, lo] of two 16-bit halves, *)
(* and the arithmetic below is arithmetic modulo 2^32.                     *)
(***************************************************************************)
EXTENDS Integers, Sequences, FiniteSets, TLC

\* ===== Bounds of the exploration (not program constants) =====
\* loop() runs at most MaxTicks times after one setup().
MaxTicks == 4
\* At most MaxRx bursts of bytes arrive on the serial line in one behaviour.
MaxRx == 2
\* At most MaxBoots power cycles after the first power-up.
MaxBoots == 1

\* ===== #define constants of the sketch =====
EEPROM_SETPOINT == 0
EEPROM_RIEGO_MS == 1
EEPROM_BLOQUEO_MS == 5
SETPOINT_DEFAULT == 35
RIEGO_DEFAULT_MS == 60000
BLOQUEO_DEFAULT_MS == 7200000
ADC_HUMEDO == 275
ADC_SECO == 615
\* limits tested by loadConfig()
DURACION_MIN_MS == 1000
RIEGO_MAX_MS == 3600000
BLOQUEO_MAX_MS == 86400000
\* limits of constrain() in processCommand()
SETPOINT_MIN == 0
SETPOINT_MAX == 100
\* capacity test on inBuf in loop()
INBUF_MAX == 32
\* delay(200) at the end of loop()
DELAY_MS == 200
\* factor seconds -> milliseconds in processCommand()
MS_POR_SEGUNDO == 1000

\* ===== uint32_t =====
Half == 65536
Byte == 256

U32(n) == [hi |-> n \div Half, lo |-> n % Half]
U32Max == [hi |-> Half - 1, lo |-> Half - 1]

LtU32(a, b) == a.hi < b.hi \/ (a.hi = b.hi /\ a.lo < b.lo)
LeU32(a, b) == a = b \/ LtU32(a, b)
GeU32(a, b) == ~LtU32(a, b)
GtU32(a, b) == LtU32(b, a)

\* a + b modulo 2^32
AddU32(a, b) ==
  LET lo == a.lo + b.lo
      carry == lo \div Half
  IN [hi |-> (a.hi + b.hi + carry) % Half, lo |-> lo % Half]

\* a - b modulo 2^32 (unsigned subtraction, wraps)
SubU32(a, b) ==
  LET lo == a.lo - b.lo
      borrow == IF lo < 0 THEN 1 ELSE 0
  IN [hi |-> (a.hi - b.hi - borrow + 2 * Half) % Half, lo |-> (lo + Half) % Half]

\* (uint32_t)num * k modulo 2^32, for 0 <= num < 2^31 and 0 <= k < 2^15
MulU32(num, k) ==
  LET n == U32(num)
      lo == n.lo * k
  IN [hi |-> (n.hi * k + lo \div Half) % Half, lo |-> lo % Half]

\* ===== Arduino String, as a sequence of one-character strings =====
Digits == <<"0", "1", "2", "3", "4", "5", "6", "7", "8", "9">>
Upper == <<"A", "B", "C", "D", "E", "F", "G", "H", "I", "J", "K", "L", "M",
           "N", "O", "P", "Q", "R", "S", "T", "U", "V", "W", "X", "Y", "Z">>
Lower == <<"a", "b", "c", "d", "e", "f", "g", "h", "i", "j", "k", "l", "m",
           "n", "o", "p", "q", "r", "s", "t", "u", "v", "w", "x", "y", "z">>

\* isspace() of the characters the inputs use
IsSpace(c) == c \in {" ", "\t", "\n", "\r"}
IsDigit(c) == \E i \in 1..Len(Digits) : Digits[i] = c
DigitVal(c) == (CHOOSE i \in 1..Len(Digits) : Digits[i] = c) - 1
LowerChar(c) ==
  IF \E i \in 1..Len(Upper) : Upper[i] = c
  THEN Lower[CHOOSE i \in 1..Len(Upper) : Upper[i] = c]
  ELSE c

\* String::trim(): drops leading and trailing whitespace
trim(s) ==
  LET keep == {i \in 1..Len(s) : ~IsSpace(s[i])}
  IN IF keep = {} THEN <<>>
     ELSE SubSeq(s, CHOOSE i \in keep : \A j \in keep : i <= j,
                    CHOOSE i \in keep : \A j \in keep : i >= j)

\* String::toLowerCase()
toLowerCase(s) == [i \in 1..Len(s) |-> LowerChar(s[i])]

\* String::indexOf(c): 0-based index of the first c, -1 when there is none
indexOf(s, c) ==
  LET at == {i \in 1..Len(s) : s[i] = c}
  IN IF at = {} THEN -1 ELSE (CHOOSE i \in at : \A j \in at : i <= j) - 1

\* String::substring(from, to): characters from..to-1 (0-based)
substring(s, from, to) == SubSeq(s, from + 1, to)

\* String::toInt() is atol(): leading whitespace, an optional sign, then the
\* longest run of digits; 0 when no digit follows.  The inputs of the model
\* stay within a 32-bit long, where atol() is defined.
RECURSIVE atolDigits(_, _, _)
atolDigits(s, i, acc) ==
  IF i > Len(s) \/ ~IsDigit(s[i]) THEN acc
  ELSE atolDigits(s, i + 1, acc * 10 + DigitVal(s[i]))

toInt(s) ==
  LET body == {i \in 1..Len(s) : ~IsSpace(s[i])}
      start == IF body = {} THEN Len(s) + 1
               ELSE CHOOSE i \in body : \A j \in body : i <= j
      signed == start <= Len(s) /\ s[start] \in {"+", "-"}
      from == IF signed THEN start + 1 ELSE start
      mag == atolDigits(s, from, 0)
  IN IF signed /\ s[start] = "-" THEN 0 - mag ELSE mag

\* constrain(amt, low, high) macro of Arduino.h
constrain(amt, low, high) ==
  IF amt < low THEN low ELSE IF amt > high THEN high ELSE amt

\* ===== Sensor =====
\* mutant: the quotient is rounded to nearest
humedadPorcentaje_Round(adc) ==
  IF adc <= ADC_HUMEDO THEN 100
  ELSE IF adc >= ADC_SECO THEN 0
  ELSE ((ADC_SECO - adc) * 100 + (ADC_SECO - ADC_HUMEDO) \div 2)
         \div (ADC_SECO - ADC_HUMEDO)

\* humedadPorcentaje(): C's / truncates toward zero; the operands are >= 0 here
humedadPorcentaje(adc) ==
  IF adc <= ADC_HUMEDO THEN 100
  ELSE IF adc >= ADC_SECO THEN 0
  ELSE ((ADC_SECO - adc) * 100) \div (ADC_SECO - ADC_HUMEDO)

\* ===== EEPROM =====
\* The sketch uses bytes 0..8: the setpoint byte and two little-endian words.
EepromAddrs == 0..8
FieldAddrs(addr) == addr..(addr + 3)

\* byte k (0 = least significant) of a uint32_t, as AVR lays it out
ByteOf(v, k) ==
  CASE k = 0 -> v.lo % Byte
    [] k = 1 -> v.lo \div Byte
    [] k = 2 -> v.hi % Byte
    [] k = 3 -> v.hi \div Byte

\* EEPROM.get(addr, v) for a uint32_t
eepromReadU32(e, addr) ==
  [hi |-> e[addr + 2] + Byte * e[addr + 3], lo |-> e[addr] + Byte * e[addr + 1]]

\* A program memory m is a record of the globals of the sketch, the level of
\* the output pin, the storage, the bytes waiting in the Serial receive
\* buffer (serial), and what the code printed (tx) and wrote
\* (writes: the addresses on which the sketch issued a storage write).

\* EEPROM.update(addr, b): writes the cell only when it holds another value
EEPROM_update(m, addr, b) ==
  IF m.eeprom[addr] = b THEN m
  ELSE [m EXCEPT !.eeprom[addr] = b, !.writes = @ \cup {addr}]

\* EEPROM.put(addr, v) for a uint32_t: a write of the four bytes of the word
EEPROM_put(m, addr, v) ==
  [m EXCEPT !.eeprom = [a \in EepromAddrs |->
                          IF a \in FieldAddrs(addr) THEN ByteOf(v, a - addr)
                          ELSE @[a]],
            !.writes = @ \cup FieldAddrs(addr)]

\* mutant: the word is written without comparing
eepromUpdateU32_Always(m, addr, v) == EEPROM_put(m, addr, v)

eepromUpdateU32(m, addr, v) ==
  IF eepromReadU32(m.eeprom, addr) # v THEN EEPROM_put(m, addr, v) ELSE m

\* ===== Configuration =====
loadSetpoint(e) ==
  LET sp == e[EEPROM_SETPOINT]
  IN IF sp <= 100 THEN sp ELSE SETPOINT_DEFAULT

\* mutant: the upper limit is not tested
loadRiego_NoUpper(e) ==
  LET v == eepromReadU32(e, EEPROM_RIEGO_MS)
  IN IF LtU32(v, U32(DURACION_MIN_MS)) THEN U32(RIEGO_DEFAULT_MS) ELSE v

loadRiego(e) ==
  LET v == eepromReadU32(e, EEPROM_RIEGO_MS)
  IN IF LtU32(v, U32(DURACION_MIN_MS)) \/ GtU32(v, U32(RIEGO_MAX_MS))
     THEN U32(RIEGO_DEFAULT_MS) ELSE v

loadBloqueo(e) ==
  LET v == eepromReadU32(e, EEPROM_BLOQUEO_MS)
  IN IF LtU32(v, U32(DURACION_MIN_MS)) \/ GtU32(v, U32(BLOQUEO_MAX_MS))
     THEN U32(BLOQUEO_DEFAULT_MS) ELSE v

loadConfig(m) ==
  [m EXCEPT !.setpoint = loadSetpoint(m.eeprom),
            !.tiempoRiegoMs = loadRiego(m.eeprom),
            !.tiempoBloqueoMs = loadBloqueo(m.eeprom)]

\* mutant: the setpoint is never stored
saveSetpoint_Skip(m, v) == m

\* saveSetpoint(int v): the int is narrowed to the uint8_t EEPROM.update takes
saveSetpoint(m, v) == EEPROM_update(m, EEPROM_SETPOINT, v % Byte)
saveRiego(m, v) == eepromUpdateU32(m, EEPROM_RIEGO_MS, v)
saveBloqueo(m, v) == eepromUpdateU32(m, EEPROM_BLOQUEO_MS, v)

\* Serial.print pieces that make up one output line
Println(m, line) == [m EXCEPT !.tx = Append(@, line)]

\* ===== Commands =====
KeySet == <<"s", "e", "t">>
KeyRiego == <<"r", "i", "e", "g", "o">>
KeyBloqueo == <<"b", "l", "o", "q", "u", "e", "o">>

\* mutant: the confirmation is printed only when the value changed
cmdSet_Quiet(m, num0) ==
  LET num == constrain(num0, SETPOINT_MIN, SETPOINT_MAX)
  IN IF num # m.setpoint
     THEN Println(saveSetpoint([m EXCEPT !.setpoint = num], num),
                  <<"Setpoint = ", num, "%">>)
     ELSE m

cmdSet(m, num0) ==
  LET num == constrain(num0, SETPOINT_MIN, SETPOINT_MAX)
      m1 == IF num # m.setpoint
            THEN saveSetpoint([m EXCEPT !.setpoint = num], num)
            ELSE m
  IN Println(m1, <<"Setpoint = ", m1.setpoint, "%">>)

\* mutant: riego=0 is taken as a duration
cmdRiego_ZeroOk(m, num) ==
  IF num >= 0
  THEN LET v == MulU32(num, MS_POR_SEGUNDO)
       IN Println(saveRiego([m EXCEPT !.tiempoRiegoMs = v], v),
                  <<"Riego = ", num, " s">>)
  ELSE m

cmdRiego(m, num) ==
  IF num > 0
  THEN LET v == MulU32(num, MS_POR_SEGUNDO)
       IN Println(saveRiego([m EXCEPT !.tiempoRiegoMs = v], v),
                  <<"Riego = ", num, " s">>)
  ELSE m

cmdBloqueo(m, num) ==
  IF num > 0
  THEN LET v == MulU32(num, MS_POR_SEGUNDO)
       IN Println(saveBloqueo([m EXCEPT !.tiempoBloqueoMs = v], v),
                  <<"Bloqueo = ", num, " s">>)
  ELSE m

\* the head of processCommand(): trim, lower-case, split at the first '='
parseCommand(s0) ==
  LET s == toLowerCase(trim(s0))
      eq == indexOf(s, "=")
  IN IF eq < 0 THEN [eq |-> eq, key |-> <<>>, num |-> 0]
     ELSE [eq |-> eq, key |-> substring(s, 0, eq),
           num |-> toInt(substring(s, eq + 1, Len(s)))]

processCommand(m, s0) ==
  LET p == parseCommand(s0)
  IN IF p.eq < 0 THEN m
     ELSE IF p.key = KeySet THEN cmdSet(m, p.num)
     ELSE IF p.key = KeyRiego THEN cmdRiego(m, p.num)
     ELSE IF p.key = KeyBloqueo THEN cmdBloqueo(m, p.num)
     ELSE m

\* ===== Inputs the environment supplies =====
NL == <<"\n">>
CRLF == <<"\r", "\n">>
TxtSet == <<"s", "e", "t", "=">>
TxtRiego == <<"r", "i", "e", "g", "o", "=">>
TxtBloqueo == <<"b", "l", "o", "q", "u", "e", "o", "=">>

\* leading blanks that leave room for two more characters in inBuf
Blanks == [i \in 1..(INBUF_MAX - 2) |-> " "]

\* Bursts of bytes found pending on the serial line at a tick.
Bursts ==
  { TxtSet \o <<"1", "5", "0">> \o NL,                      \* above the range
    TxtSet \o <<"3", "5">> \o NL,                           \* the default value
    <<" ", "S", "E", "T", "=", "5", "0", " ">> \o CRLF,     \* case, blanks, CR LF
    TxtSet \o <<"a", "b", "c">> \o NL,                      \* no digits
    TxtSet \o <<"-", "5">> \o NL,                           \* negative
    TxtRiego \o <<"1">> \o NL,
    TxtRiego \o <<"3", "6", "0", "1">> \o NL,               \* over one hour
    TxtRiego \o <<"4", "2", "9", "4", "9", "6", "8">> \o NL, \* product over 2^32
    TxtRiego \o <<"0">> \o NL,
    TxtBloqueo \o <<"1">> \o NL,
    TxtBloqueo \o <<"8", "6", "4", "0", "1">> \o NL,        \* over 24 hours
    TxtBloqueo \o <<"-", "1">> \o NL,
    <<"f", "o", "o", "b", "a", "r">> \o NL,                 \* no '='
    <<"f", "o", "o", "=", "5">> \o NL,                      \* unknown key
    TxtSet \o <<"5", "0">> \o NL \o TxtRiego \o <<"1">> \o NL, \* two lines at once
    TxtSet \o <<"1">>,                                      \* a line not yet ended
    <<"0", "0">> \o NL,
    Blanks \o TxtSet \o <<"9", "9">> \o NL }                \* longer than inBuf takes

\* The bursts that change a value the state machine reads
CtlBursts ==
  { TxtSet \o <<"1", "5", "0">> \o NL,
    TxtRiego \o <<"1">> \o NL,
    TxtBloqueo \o <<"1">> \o NL }

\* analogRead() returns a 10-bit conversion
ADC_MAX == 1023

\* ADC samples: soaked, in between, dry
AdcSamples == {200, 496, 700}

\* Time between the millis() of two ticks.  delay(200) bounds it from below
\* only; a long advance stands for a slow tick or for the run of ticks in
\* between that changed nothing.
TickDeltas == {U32(MS_POR_SEGUNDO), [hi |-> Half \div 2, lo |-> 0]}

\* EEPROM contents found at the first power-up
EepromImage(sp, riego, bloqueo) ==
  [a \in EepromAddrs |->
     IF a = EEPROM_SETPOINT THEN sp
     ELSE IF a \in FieldAddrs(EEPROM_RIEGO_MS) THEN ByteOf(riego, a - EEPROM_RIEGO_MS)
     ELSE ByteOf(bloqueo, a - EEPROM_BLOQUEO_MS)]

InitialImages ==
  { EepromImage(255, U32Max, U32Max),                       \* never written
    EepromImage(50, U32(1000), U32(86400000)),              \* all in range
    EepromImage(101, U32(3600000), U32(999)),
    EepromImage(100, U32(999), U32(1000)),
    EepromImage(0, U32(3600001), U32(86400001)) }

\* the images the controller is explored from: blank, and all three in range
CtlImages ==
  { EepromImage(255, U32Max, U32Max),
    EepromImage(50, U32(1000), U32(86400000)) }

VARIABLES
  eeprom,            \* persistent storage: EepromAddrs -> 0..255
  setpoint, tiempoRiegoMs, tiempoBloqueoMs,
  inBuf,             \* line being assembled
  estado, tEstado,
  pin,               \* level of SALIDA_PIN
  ahora,             \* millis() as read by the last tick (0 at power-up)
  adc,               \* analogRead() of the last tick
  rx,                \* characters the last tick read from the serial line
  tx,                \* lines printed by the last handler
  log,               \* processCommand() calls of the last tick, in order
  op,                \* the handler that ran last
  tFin,              \* history: millis() of the tick that ended the last watering
  desdeFin,          \* history: real time since then (not wrapped)
  lockSalida,        \* history: tiempoBloqueoMs on the tick that last left BLOQUEO
  antes,             \* history: estado when power was last cycled ("NONE": never)
  ticks, nRx, boots  \* exploration counters

vars == <<eeprom, setpoint, tiempoRiegoMs, tiempoBloqueoMs, inBuf, estado,
          tEstado, pin, ahora, adc, rx, tx, log, op, tFin, desdeFin, lockSalida,
          antes, ticks, nRx, boots>>

Cfg(m) == [setpoint |-> m.setpoint, tiempoRiegoMs |-> m.tiempoRiegoMs,
           tiempoBloqueoMs |-> m.tiempoBloqueoMs, eeprom |-> m.eeprom,
           estado |-> m.estado, tEstado |-> m.tEstado, pin |-> m.pin]

\* processCommand(inBuf); inBuf = "" of loop(), with the call recorded in log
dispatch(m) ==
  LET r == processCommand([m EXCEPT !.tx = <<>>, !.writes = {}], m.inBuf)
  IN [r EXCEPT !.inBuf = <<>>,
               !.tx = m.tx \o r.tx,
               !.writes = m.writes \cup r.writes,
               !.log = Append(m.log, [cmd |-> m.inBuf, pre |-> Cfg(m), post |-> Cfg(r),
                                      writes |-> r.writes, tx |-> r.tx])]

\* mutant: characters are appended without the length test
readChar_NoCap(m, c) ==
  IF c \in {"\n", "\r"}
  THEN IF Len(m.inBuf) > 0 THEN dispatch(m) ELSE m
  ELSE [m EXCEPT !.inBuf = Append(@, c)]

\* one pass of the body of while (Serial.available())
readChar(m, c) ==
  IF c \in {"\n", "\r"}
  THEN IF Len(m.inBuf) > 0 THEN dispatch(m) ELSE m
  ELSE IF Len(m.inBuf) < INBUF_MAX THEN [m EXCEPT !.inBuf = Append(@, c)] ELSE m

\* mutant: reading stops at the first dispatched line
RECURSIVE drain_OneLine(_)
drain_OneLine(m) ==
  IF m.serial = <<>> \/ m.log # <<>> THEN m
  ELSE drain_OneLine(readChar([m EXCEPT !.serial = Tail(@)], Head(m.serial)))

\* while (Serial.available()) { char c = Serial.read(); ... }
RECURSIVE drain(_)
drain(m) ==
  IF m.serial = <<>> THEN m
  ELSE drain(readChar([m EXCEPT !.serial = Tail(@)], Head(m.serial)))

\* mutant: waters at humedad == setpoint too
caseIdle_LessEq(st, now, humedad, cfg) ==
  IF humedad <= cfg.setpoint
  THEN [estado |-> "RIEGO_ACTIVO", tEstado |-> now, pin |-> "HIGH"]
  ELSE [st EXCEPT !.pin = "LOW"]

\* switch (estado) of loop()
caseIdle(st, now, humedad, cfg) ==
  IF humedad < cfg.setpoint
  THEN [estado |-> "RIEGO_ACTIVO", tEstado |-> now, pin |-> "HIGH"]
  ELSE [st EXCEPT !.pin = "LOW"]

\* mutant: the watering ends without the pin being driven LOW
caseRiego_KeepsPin(st, now, cfg) ==
  IF GeU32(SubU32(now, st.tEstado), cfg.tiempoRiegoMs)
  THEN [estado |-> "BLOQUEO", tEstado |-> now, pin |-> st.pin]
  ELSE st

\* mutant: the watering is timed against the compiled-in default
caseRiego_Default(st, now, cfg) ==
  IF GeU32(SubU32(now, st.tEstado), U32(RIEGO_DEFAULT_MS))
  THEN [estado |-> "BLOQUEO", tEstado |-> now, pin |-> "LOW"]
  ELSE st

\* mutant: BLOQUEO is entered without tEstado = ahora
caseRiego_NoStamp(st, now, cfg) ==
  IF GeU32(SubU32(now, st.tEstado), cfg.tiempoRiegoMs)
  THEN [estado |-> "BLOQUEO", tEstado |-> st.tEstado, pin |-> "LOW"]
  ELSE st

caseRiego(st, now, cfg) ==
  IF GeU32(SubU32(now, st.tEstado), cfg.tiempoRiegoMs)
  THEN [estado |-> "BLOQUEO", tEstado |-> now, pin |-> "LOW"]
  ELSE st

\* mutant: the lockout is left without waiting
caseBloqueo_NoWait(st, now, cfg) == [st EXCEPT !.estado = "IDLE", !.pin = "LOW"]

caseBloqueo(st, now, cfg) ==
  IF GeU32(SubU32(now, st.tEstado), cfg.tiempoBloqueoMs)
  THEN [st EXCEPT !.estado = "IDLE", !.pin = "LOW"]
  ELSE [st EXCEPT !.pin = "LOW"]

\* mutant: a lockout that ends falls through into the IDLE case
switchEstado_FallThrough(st, now, humedad, cfg) ==
  CASE st.estado = "IDLE" -> caseIdle(st, now, humedad, cfg)
    [] st.estado = "RIEGO_ACTIVO" -> caseRiego(st, now, cfg)
    [] st.estado = "BLOQUEO" ->
         LET r == caseBloqueo(st, now, cfg)
         IN IF r.estado = "IDLE" THEN caseIdle(r, now, humedad, cfg) ELSE r

switchEstado(st, now, humedad, cfg) ==
  CASE st.estado = "IDLE" -> caseIdle(st, now, humedad, cfg)
    [] st.estado = "RIEGO_ACTIVO" -> caseRiego(st, now, cfg)
    [] st.estado = "BLOQUEO" -> caseBloqueo(st, now, cfg)

\* v / k for a uint32_t v and 0 < k < 2^15; the quotients printed fit an int
DivU32(v, k) == (v.hi \div k) * Half + (((v.hi % k) * Half + v.lo) \div k)

\* ===== setup() =====
\* The globals as the C++ runtime initialises them, over storage e; the pin
\* is an input until setup() configures it.
Globals(e) ==
  [eeprom |-> e, setpoint |-> 0, tiempoRiegoMs |-> U32(0), tiempoBloqueoMs |-> U32(0),
   inBuf |-> <<>>, estado |-> "IDLE", tEstado |-> U32(0), pin |-> "INPUT",
   serial |-> <<>>, tx |-> <<>>, writes |-> {}, log |-> <<>>]

\* mutant: setup() does not drive the pin
setup_NoWrite(m0) ==
  LET m == loadConfig(m0)
      m1 == Println(m, <<"Sistema de riego listo">>)
      m2 == Println(m1, <<"Setpoint: ", m.setpoint, "%">>)
      m3 == Println(m2, <<"Riego: ", DivU32(m.tiempoRiegoMs, 1000), " s">>)
  IN Println(m3, <<"Bloqueo: ", DivU32(m.tiempoBloqueoMs, 1000), " s">>)

setup(m0) ==
  LET m == loadConfig([m0 EXCEPT !.pin = "LOW"])
      m1 == Println(m, <<"Sistema de riego listo">>)
      m2 == Println(m1, <<"Setpoint: ", m.setpoint, "%">>)
      m3 == Println(m2, <<"Riego: ", DivU32(m.tiempoRiegoMs, 1000), " s">>)
  IN Println(m3, <<"Bloqueo: ", DivU32(m.tiempoBloqueoMs, 1000), " s">>)

\* real time since the last watering ended; saturates once it passes 2^32 - 1
NoTime == [over |-> FALSE, ms |-> U32(0)]
\* placeholder of a history variable before the event it records
Never == [hi |-> -1, lo |-> -1]
AddReal(r, d) ==
  LET sum == AddU32(r.ms, d)
      over == r.over \/ LtU32(sum, r.ms)
  IN [over |-> over, ms |-> IF over THEN U32Max ELSE sum]

\* The values of the variables right after power-up and setup() over storage e.
Boot(e) ==
  LET m == setup(Globals(e))
  IN [eeprom |-> m.eeprom, setpoint |-> m.setpoint,
      tiempoRiegoMs |-> m.tiempoRiegoMs, tiempoBloqueoMs |-> m.tiempoBloqueoMs,
      inBuf |-> m.inBuf, estado |-> m.estado, tEstado |-> m.tEstado,
      pin |-> m.pin, tx |-> m.tx]

PowerUp(images) ==
  \E e \in images :
    LET b == Boot(e)
    IN /\ eeprom = b.eeprom
       /\ setpoint = b.setpoint
       /\ tiempoRiegoMs = b.tiempoRiegoMs
       /\ tiempoBloqueoMs = b.tiempoBloqueoMs
       /\ inBuf = b.inBuf
       /\ estado = b.estado
       /\ tEstado = b.tEstado
       /\ pin = b.pin
       /\ tx = b.tx
       /\ ahora = U32(0)
       /\ adc = 0
       /\ rx = <<>>
       /\ log = <<>>
       /\ op = "setup"
       /\ antes = "NONE"
       /\ tFin = Never
       /\ desdeFin = NoTime
       /\ lockSalida = Never
       /\ ticks = 0
       /\ nRx = 0
       /\ boots = 0

Init == PowerUp(CtlImages)

InitCfg == PowerUp(InitialImages)

\* Power is cycled: RAM and the clock restart, the EEPROM keeps its bytes,
\* and setup() runs again.
Restart ==
  LET b == Boot(eeprom)
  IN /\ boots < MaxBoots
     /\ boots' = boots + 1
     /\ eeprom' = b.eeprom
     /\ setpoint' = b.setpoint
     /\ tiempoRiegoMs' = b.tiempoRiegoMs
     /\ tiempoBloqueoMs' = b.tiempoBloqueoMs
     /\ inBuf' = b.inBuf
     /\ estado' = b.estado
     /\ tEstado' = b.tEstado
     /\ pin' = b.pin
     /\ tx' = b.tx
     /\ ahora' = U32(0)
     /\ adc' = 0
     /\ rx' = <<>>
     /\ log' = <<>>
     /\ op' = "setup"
     /\ antes' = estado
     /\ tFin' = Never
     /\ desdeFin' = NoTime
     /\ lockSalida' = Never
     /\ UNCHANGED <<ticks, nRx>>

\* ===== loop() =====
\* One tick: bytes are the characters pending on the serial line, d the time
\* since the previous tick read millis(), sample the analogRead() result.
loop(bytes, d, sample) ==
  LET now == AddU32(ahora, d)
      m0 == [eeprom |-> eeprom, setpoint |-> setpoint, tiempoRiegoMs |-> tiempoRiegoMs,
             tiempoBloqueoMs |-> tiempoBloqueoMs, inBuf |-> inBuf, estado |-> estado,
             tEstado |-> tEstado, pin |-> pin, serial |-> bytes, tx |-> <<>>,
             writes |-> {}, log |-> <<>>]
      humedad == humedadPorcentaje(sample)
  IN /\ \E m \in {drain(m0)} :
        \E st \in {switchEstado([estado |-> m.estado, tEstado |-> m.tEstado,
                                 pin |-> m.pin], now, humedad, m)} :
          LET ended == estado = "RIEGO_ACTIVO" /\ st.estado = "BLOQUEO"
          IN /\ eeprom' = m.eeprom
             /\ setpoint' = m.setpoint
             /\ tiempoRiegoMs' = m.tiempoRiegoMs
             /\ tiempoBloqueoMs' = m.tiempoBloqueoMs
             /\ inBuf' = m.inBuf
             /\ estado' = st.estado
             /\ tEstado' = st.tEstado
             /\ pin' = st.pin
             /\ tx' = Append(m.tx, <<"Top:100 ", "Bottom:0 ", "Set:", m.setpoint, " ",
                                     "Hum:", humedad>>)
             /\ log' = m.log
             /\ tFin' = IF ended THEN now ELSE tFin
             /\ desdeFin' = IF ended THEN NoTime
                            ELSE IF tFin = Never THEN desdeFin ELSE AddReal(desdeFin, d)
             /\ lockSalida' = IF estado = "BLOQUEO" /\ st.estado = "IDLE"
                              THEN m.tiempoBloqueoMs ELSE lockSalida
     /\ ahora' = now
     /\ adc' = sample
     /\ rx' = bytes
     /\ op' = "loop"
     /\ UNCHANGED antes

\* loop() with its inputs drawn from the given sets (bursts may hold <<>>,
\* nothing pending), counted against the bounds.  The first tick follows
\* setup() at once; later ticks follow a delay(200).
Tick(bursts, deltas, samples) ==
  \E bytes \in bursts, sample \in samples,
     d \in IF op = "setup" THEN {U32(0)} ELSE deltas :
    /\ ticks < MaxTicks
    /\ bytes # <<>> => nRx < MaxRx
    /\ loop(bytes, d, sample)
    /\ ticks' = ticks + 1
    /\ nRx' = IF bytes # <<>> THEN nRx + 1 ELSE nRx
    /\ UNCHANGED boots

\* The controller under every clock advance and sample, with the commands
\* that change what the state machine reads.
Next == Tick(CtlBursts \cup {<<>>}, TickDeltas, AdcSamples) \/ Restart

Spec == Init /\ [][Next]_vars

\* loop() running for ever: the same handler, not counted against MaxTicks.
TickLibre(bursts, deltas, samples) ==
  \E bytes \in bursts, sample \in samples,
     d \in IF op = "setup" THEN {U32(0)} ELSE deltas :
    /\ bytes # <<>> => nRx < MaxRx
    /\ loop(bytes, d, sample)
    /\ nRx' = IF bytes # <<>> THEN nRx + 1 ELSE nRx
    /\ UNCHANGED <<ticks, boots>>

\* A duration command whose product wraps to 2^32 - 184 ms
LiveBursts == { TxtRiego \o <<"1", "7", "1", "7", "9", "8", "6", "9">> \o NL }

\* Clock advances of 2^30 and 2^31 ms: each a whole number of tick periods
\* of 256 ms (delay(200) plus the time the tick itself takes), standing for
\* the run of ticks in between, which the model takes to change nothing.
LiveDeltas == {[hi |-> Half \div 4, lo |-> 0], [hi |-> Half \div 2, lo |-> 0]}

\* The controller left running: the Arduino core calls loop() again and
\* again, so a tick is always eventually taken; at most MaxRx of them find a
\* command pending.
NextLive == TickLibre(LiveBursts \cup {<<>>}, LiveDeltas, AdcSamples)

SpecLive == Init /\ [][NextLive]_vars /\ WF_vars(NextLive)

\* The sensor path: the first tick after setup() under every value
\* analogRead() can return.
NextSensor == op = "setup" /\ Tick({<<>>}, {U32(0)}, 0..ADC_MAX)

SpecSensor == Init /\ [][NextSensor]_vars

\* The command path: every tick finds one of the bursts pending, at the
\* nominal tick rate on dry soil.
NextCfg == Tick(Bursts, {U32(DELAY_MS)}, {700}) \/ Restart

SpecCfg == InitCfg /\ [][NextCfg]_vars

\* ======================================================================
\* Properties
\* ======================================================================

\* The stored value of each field, as the bytes of a storage e hold it
StoredSetpoint(e) == e[EEPROM_SETPOINT]
StoredRiego(e) == eepromReadU32(e, EEPROM_RIEGO_MS)
StoredBloqueo(e) == eepromReadU32(e, EEPROM_BLOQUEO_MS)
InRange(v, lo, hi) == LeU32(U32(lo), v) /\ LeU32(v, U32(hi))

\* What a logged command asks for
IsSetCmd(c) == parseCommand(c.cmd).eq >= 0 /\ parseCommand(c.cmd).key = KeySet
IsRiegoCmd(c) ==
  /\ parseCommand(c.cmd).eq >= 0
  /\ parseCommand(c.cmd).key = KeyRiego
  /\ parseCommand(c.cmd).num > 0
IsBloqueoCmd(c) ==
  /\ parseCommand(c.cmd).eq >= 0
  /\ parseCommand(c.cmd).key = KeyBloqueo
  /\ parseCommand(c.cmd).num > 0
Clamped(c) ==
  LET v == parseCommand(c.cmd).num
  IN IF v < 0 THEN 0 ELSE IF v > 100 THEN 100 ELSE v
Logged == {log[i] : i \in DOMAIN log}

\* C1: at the end of setup() and of every tick the output pin is HIGH
\* exactly when the state is RIEGO_ACTIVO.
C1_PinIffRiego == (pin = "HIGH") <=> (estado = "RIEGO_ACTIVO")

\* C1 witness: a tick has ended a watering and left the pin LOW in BLOQUEO.
C1_Witness == op = "loop" /\ estado = "BLOQUEO" /\ tEstado = ahora /\ pin = "LOW"

\* C2 as stated: on the tick that turns the actuator ON after a watering that
\* ended at tFin, the clock difference (ahora - tFin) mod 2^32 is at least the
\* lockout that was in effect on the tick that left BLOQUEO.
C2_AsStated ==
  [][(estado = "IDLE" /\ estado' = "RIEGO_ACTIVO" /\ tFin # Never)
       => GeU32(SubU32(ahora', tFin), lockSalida)]_vars

\* C2 amended: on a tick that turns the actuator ON less than 2^32 ms of real
\* time after a watering ended at tFin, the clock difference
\* (ahora - tFin) mod 2^32 is at least the lockout that was in effect on the
\* tick that left BLOQUEO.
C2_Lockout ==
  [][(estado = "IDLE" /\ estado' = "RIEGO_ACTIVO" /\ tFin # Never /\ ~desdeFin'.over)
       => GeU32(SubU32(ahora', tFin), lockSalida)]_vars

\* C2 witness: a second watering has just started, less than 2^32 ms after
\* the first one ended.
C2_Witness ==
  /\ estado = "RIEGO_ACTIVO" /\ tEstado = ahora /\ pin = "HIGH"
  /\ tFin # Never /\ lockSalida # Never /\ ~desdeFin.over

\* C3: every tick follows the transition table, read with the moisture of
\* the tick's sample, the tick's millis() and the configuration the tick's
\* commands left.
C3_Table ==
  [][op' = "loop" =>
       LET hum == humedadPorcentaje(adc')
           since == SubU32(ahora', tEstado)
       IN /\ estado = "IDLE" /\ hum < setpoint'
               => estado' = "RIEGO_ACTIVO" /\ pin' = "HIGH" /\ tEstado' = ahora'
          /\ estado = "IDLE" /\ ~(hum < setpoint')
               => estado' = "IDLE" /\ pin' = "LOW"
          /\ estado = "RIEGO_ACTIVO" /\ GeU32(since, tiempoRiegoMs')
               => estado' = "BLOQUEO" /\ pin' = "LOW" /\ tEstado' = ahora'
          /\ estado = "RIEGO_ACTIVO" /\ LtU32(since, tiempoRiegoMs')
               => estado' = "RIEGO_ACTIVO" /\ pin' = "HIGH"
          /\ estado = "BLOQUEO" /\ GeU32(since, tiempoBloqueoMs')
               => estado' = "IDLE" /\ pin' = "LOW"
          /\ estado = "BLOQUEO" /\ LtU32(since, tiempoBloqueoMs')
               => estado' = "BLOQUEO" /\ pin' = "LOW"]_vars

\* C3 witness: a whole cycle IDLE -> RIEGO_ACTIVO -> BLOQUEO -> IDLE is done.
C3_Witness == op = "loop" /\ estado = "IDLE" /\ tFin # Never /\ lockSalida # Never

\* C4 as stated: the two durations in memory are always within their ranges.
C4_DurationsInRange ==
  /\ InRange(tiempoRiegoMs, DURACION_MIN_MS, RIEGO_MAX_MS)
  /\ InRange(tiempoBloqueoMs, DURACION_MIN_MS, BLOQUEO_MAX_MS)

\* C5 as stated: a restart finds the three values held just before it.
C5_SurvivesRestart ==
  [][op' = "setup" =>
       /\ setpoint' = setpoint
       /\ tiempoRiegoMs' = tiempoRiegoMs
       /\ tiempoBloqueoMs' = tiempoBloqueoMs]_vars

\* C6: after set=v with v in 0..100, loadConfig() run afresh over the
\* storage the command left yields setpoint = v.
C6_SetThenLoad ==
  \A c \in Logged :
    (IsSetCmd(c) /\ parseCommand(c.cmd).num \in 0..100)
      => loadConfig(Globals(c.post.eeprom)).setpoint = parseCommand(c.cmd).num

\* C6 witness: set=35 arrived over storage whose setpoint byte was never
\* written, and the byte is still unwritten.
C6_Witness ==
  \E c \in Logged :
    /\ IsSetCmd(c) /\ parseCommand(c.cmd).num = SETPOINT_DEFAULT
    /\ StoredSetpoint(c.post.eeprom) = 255

\* C7: setup()'s loadConfig() takes each stored field when it is in range and
\* the field's default otherwise, field by field, and changes no byte.
C7_LoadValidates ==
  [][op' = "setup" =>
       /\ eeprom' = eeprom
       /\ setpoint' = IF StoredSetpoint(eeprom) > 100 THEN 35
                      ELSE StoredSetpoint(eeprom)
       /\ tiempoRiegoMs' = IF InRange(StoredRiego(eeprom), 1000, 3600000)
                           THEN StoredRiego(eeprom) ELSE U32(60000)
       /\ tiempoBloqueoMs' = IF InRange(StoredBloqueo(eeprom), 1000, 86400000)
                             THEN StoredBloqueo(eeprom) ELSE U32(7200000)]_vars

\* C7 witness: after a restart, a stored setpoint out of range gave way to 35
\* while the stored watering time, in range, was taken as stored.
C7_Witness ==
  /\ op = "setup" /\ boots > 0
  /\ StoredSetpoint(eeprom) > 100 /\ setpoint = 35
  /\ InRange(StoredRiego(eeprom), 1000, 3600000)
  /\ tiempoRiegoMs = StoredRiego(eeprom)
  /\ ~InRange(StoredBloqueo(eeprom), 1000, 86400000)
  /\ tiempoBloqueoMs = U32(7200000)

\* C8 as stated: right after a setter command the value in memory of the
\* field it addresses equals the value the storage holds for that field.
C8_NoDivergence ==
  \A c \in Logged :
    /\ IsSetCmd(c) => c.post.setpoint = StoredSetpoint(c.post.eeprom)
    /\ IsRiegoCmd(c) => c.post.tiempoRiegoMs = StoredRiego(c.post.eeprom)
    /\ IsBloqueoCmd(c) => c.post.tiempoBloqueoMs = StoredBloqueo(c.post.eeprom)

\* C9: a command issues a storage write only on the field it addresses and
\* only when the value it leaves differs from the value the storage held; a
\* command that leaves the stored value issues none.
C9_WriteIfChanged ==
  \A c \in Logged :
    /\ c.writes \subseteq
         (IF IsSetCmd(c) THEN {EEPROM_SETPOINT}
          ELSE IF IsRiegoCmd(c) THEN FieldAddrs(EEPROM_RIEGO_MS)
          ELSE IF IsBloqueoCmd(c) THEN FieldAddrs(EEPROM_BLOQUEO_MS)
          ELSE {})
    /\ c.writes # {} =>
         /\ IsSetCmd(c) => c.post.setpoint # StoredSetpoint(c.pre.eeprom)
         /\ IsRiegoCmd(c) => c.post.tiempoRiegoMs # StoredRiego(c.pre.eeprom)
         /\ IsBloqueoCmd(c) => c.post.tiempoBloqueoMs # StoredBloqueo(c.pre.eeprom)
    /\ \A a \in EepromAddrs \ c.writes : c.post.eeprom[a] = c.pre.eeprom[a]

\* C9 witness: riego=s arrived while the storage already held s*1000, and no
\* write was issued.
C9_Witness ==
  \E c \in Logged :
    /\ IsRiegoCmd(c)
    /\ c.post.tiempoRiegoMs = StoredRiego(c.pre.eeprom)
    /\ c.writes = {}

\* C10: set=v leaves setpoint = min(max(v, 0), 100) and prints exactly the one
\* line "Setpoint = <that value>%", changed or not; and setpoint is always
\* within 0..100.
C10_SetAlwaysApplied ==
  /\ setpoint \in 0..100
  /\ \A c \in Logged :
       IsSetCmd(c) =>
         /\ c.post.setpoint = Clamped(c)
         /\ c.tx = << <<"Setpoint = ", Clamped(c), "%">> >>

\* C10 witness: set=150 arrived while setpoint was 100 already; it changed
\* nothing and was confirmed with one line.
C10_Witness ==
  \E c \in Logged :
    /\ IsSetCmd(c) /\ parseCommand(c.cmd).num > 100
    /\ c.pre.setpoint = 100 /\ c.post.setpoint = 100
    /\ Len(c.tx) = 1

\* A logged command that is malformed: no '=', a key that is none of the
\* three, or riego= / bloqueo= with a parsed value <= 0
Malformed(c) ==
  LET p == parseCommand(c.cmd)
  IN \/ p.eq < 0
     \/ p.key \notin {KeySet, KeyRiego, KeyBloqueo}
     \/ p.key \in {KeyRiego, KeyBloqueo} /\ p.num <= 0

\* C11: a malformed command (no '=', unknown key, riego= or bloqueo= with a
\* parsed value <= 0) leaves setpoint, both durations, the storage, the
\* control state with its timestamp and the output pin as they were, issues
\* no storage write and prints nothing.
C11_MalformedIgnored ==
  \A c \in Logged :
    Malformed(c) => c.post = c.pre /\ c.writes = {} /\ c.tx = <<>>

\* C11 witness: riego= with a value <= 0 was dispatched while a watering was
\* running with the pin HIGH.
C11_Witness ==
  \E c \in Logged :
    /\ parseCommand(c.cmd).key = KeyRiego /\ parseCommand(c.cmd).num <= 0
    /\ c.pre.estado = "RIEGO_ACTIVO" /\ c.pre.pin = "HIGH"
    /\ c.post = c.pre

\* C12: the elapsed-time test of a tick in RIEGO_ACTIVO or BLOQUEO compares
\* against the duration as it stands after every command that tick
\* dispatched: the tick leaves RIEGO_ACTIVO exactly when
\* (ahora - tEstado) mod 2^32 >= the new tiempoRiegoMs, and leaves BLOQUEO
\* exactly when it is >= the new tiempoBloqueoMs.
C12_LiveConfig ==
  [][op' = "loop" =>
       /\ estado = "RIEGO_ACTIVO" =>
            ((estado' = "BLOQUEO") <=> GeU32(SubU32(ahora', tEstado), tiempoRiegoMs'))
       /\ estado = "BLOQUEO" =>
            ((estado' = "IDLE") <=> GeU32(SubU32(ahora', tEstado), tiempoBloqueoMs'))]_vars

\* C12 witness: riego=s arrived during a watering that had run for less than
\* the old duration but at least s*1000 ms, and the same tick ended it.
C12_Witness ==
  /\ op = "loop" /\ estado = "BLOQUEO" /\ tEstado = ahora
  /\ \E c \in Logged :
       /\ IsRiegoCmd(c)
       /\ c.pre.estado = "RIEGO_ACTIVO"
       /\ LtU32(SubU32(ahora, c.pre.tEstado), c.pre.tiempoRiegoMs)
       /\ GeU32(SubU32(ahora, c.pre.tEstado), c.post.tiempoRiegoMs)
       /\ tiempoRiegoMs = c.post.tiempoRiegoMs

\* v is the mathematical product s * 1000: v divided by 1000 is s, with
\* remainder 0
IsThousandTimes(v, s) ==
  /\ DivU32(v, MS_POR_SEGUNDO) = s
  /\ ((v.hi % MS_POR_SEGUNDO) * Half + v.lo) % MS_POR_SEGUNDO = 0

\* C13: for every parsed s > 0, riego=s (bloqueo=s) leaves the duration in
\* memory and in storage equal to the mathematical product s * 1000 and
\* prints the one line "Riego = <s> s" ("Bloqueo = <s> s").
C13_ExactProduct ==
  \A c \in Logged :
    LET s == parseCommand(c.cmd).num
    IN /\ IsRiegoCmd(c) =>
            /\ IsThousandTimes(c.post.tiempoRiegoMs, s)
            /\ IsThousandTimes(StoredRiego(c.post.eeprom), s)
            /\ c.tx = << <<"Riego = ", s, " s">> >>
       /\ IsBloqueoCmd(c) =>
            /\ IsThousandTimes(c.post.tiempoBloqueoMs, s)
            /\ IsThousandTimes(StoredBloqueo(c.post.eeprom), s)
            /\ c.tx = << <<"Bloqueo = ", s, " s">> >>

\* The number of line terminators in bytes that close a non-empty line, the
\* first line being non-empty already when pending holds
RECURSIVE CountLines(_, _)
CountLines(pending, bytes) ==
  IF bytes = <<>> THEN 0
  ELSE IF Head(bytes) \in {"\n", "\r"}
       THEN (IF pending THEN 1 ELSE 0) + CountLines(FALSE, Tail(bytes))
       ELSE CountLines(TRUE, Tail(bytes))

\* C14 as stated: whatever is pending on the serial input, a tick dispatches
\* at most one line to processCommand.
C14_AtMostOne == Len(log) <= 1

\* C14 amended: a tick reads every pending byte and dispatches every line
\* completed among them, one call per terminator that closes a non-empty
\* line, all of them before the state-machine step of that tick.
C14_EveryLine ==
  [][op' = "loop" =>
       /\ Len(log') = CountLines(inBuf # <<>>, rx')
       /\ \A i \in DOMAIN log' :
            /\ log'[i].pre.estado = estado
            /\ log'[i].pre.tEstado = tEstado
            /\ log'[i].pre.pin = pin]_vars

\* C14 witness: two lines were pending and the tick dispatched both, the
\* second one on what the first one left.
C14_Witness ==
  /\ op = "loop" /\ Len(log) = 2
  /\ IsSetCmd(log[1]) /\ IsRiegoCmd(log[2])
  /\ log[2].pre.setpoint = log[1].post.setpoint
  /\ tiempoRiegoMs = log[2].post.tiempoRiegoMs

\* C15: with loop() called for ever and no further command, every
\* RIEGO_ACTIVO state is eventually followed by BLOQUEO and every BLOQUEO
\* state by IDLE, the clock wrapping modulo 2^32 in between or not.
C15_NoStuck ==
  /\ (estado = "RIEGO_ACTIVO") ~> (estado = "BLOQUEO")
  /\ (estado = "BLOQUEO") ~> (estado = "IDLE")

\* C16: when setup() has run, after the first power-up or after power was
\* cycled in any control state, and before the first tick, the state is IDLE
\* and the output pin is LOW.
C16_RestartIdle == op = "setup" => estado = "IDLE" /\ pin = "LOW"

\* C16 witness: power was cycled during a watering, and setup() has left the
\* controller in IDLE with the pin LOW.
C16_Witness ==
  /\ op = "setup" /\ boots > 0 /\ antes = "RIEGO_ACTIVO"
  /\ estado = "IDLE" /\ pin = "LOW"

\* What the accumulator rule makes of bytes, starting from the line buf: a
\* terminator dispatches a non-empty buf and clears it and does nothing on an
\* empty one, any other byte is appended while buf holds fewer than 32
\* characters and dropped otherwise.  out collects the dispatched lines.
RECURSIVE Lex(_, _, _)
Lex(buf, bytes, out) ==
  IF bytes = <<>> THEN [buf |-> buf, out |-> out]
  ELSE IF Head(bytes) \in {"\n", "\r"}
       THEN IF buf # <<>> THEN Lex(<<>>, Tail(bytes), Append(out, buf))
            ELSE Lex(buf, Tail(bytes), out)
       ELSE IF Len(buf) < 32 THEN Lex(Append(buf, Head(bytes)), Tail(bytes), out)
            ELSE Lex(buf, Tail(bytes), out)

\* C17: inBuf never holds more than 32 characters, and for the bytes a tick
\* reads the lines handed to processCommand and the text left in inBuf are
\* those of the accumulator rule: a non-terminator is appended only while
\* the length is < 32 and dropped otherwise, '\n' or '\r' dispatches a
\* non-empty buffer once and clears it, and an empty buffer dispatches
\* nothing.
C17_Accumulator ==
  [][/\ Len(inBuf') <= 32
     /\ op' = "loop" =>
          LET r == Lex(inBuf, rx', <<>>)
          IN /\ inBuf' = r.buf
             /\ [i \in DOMAIN log' |-> log'[i].cmd] = r.out
             /\ \A i \in DOMAIN log' : Len(log'[i].cmd) \in 1..32]_vars

\* C17 witness: a line of more than 32 characters arrived; its first 32
\* characters were dispatched, once, and the buffer is empty again.
C17_Witness ==
  /\ op = "loop" /\ Len(rx) > 33 /\ inBuf = <<>>
  /\ Len(log) = 1 /\ Len(log[1].cmd) = 32
  /\ log[1].cmd = SubSeq(rx, 1, 32)

\* The humidity a tick computed, as its status line prints it
Hum == tx[Len(tx)][7]

\* C18: for the sample adc of a tick, humedadPorcentaje is 100 when
\* adc <= 275, 0 when adc >= 615 and (615 - adc) * 100 / 340 truncated in
\* between; it lies in 0..100 and no larger sample up to 1023 gives a larger
\* result.
C18_Humedad ==
  op = "loop" =>
    /\ adc <= 275 => Hum = 100
    /\ adc >= 615 => Hum = 0
    /\ (adc > 275 /\ adc < 615) => Hum = ((615 - adc) * 100) \div 340
    /\ Hum \in 0..100
    /\ \A b \in adc..1023 : humedadPorcentaje(b) <= Hum

\* C18 witness: the sample 276 gave 99 (33900 / 340 = 99.7, truncated).
C18_Witness == op = "loop" /\ adc = 276 /\ Hum = 99

\* C19 as stated: tEstado is the clock value of the tick of the most recent
\* state transition, whichever of the three it was: a tick that changes
\* estado sets tEstado to its millis(), and a tick that does not leaves it.
C19_AsStated ==
  [][op' = "loop" =>
       IF estado' # estado THEN tEstado' = ahora' ELSE tEstado' = tEstado]_vars

\* C19 amended: tEstado is the clock value of the tick of the most recent
\* transition into RIEGO_ACTIVO or BLOQUEO: a tick that enters one of the
\* two sets tEstado to its millis(), and every other tick, the one that goes
\* from BLOQUEO to IDLE included, leaves it.
C19_EnteredAt ==
  [][op' = "loop" =>
       IF estado' # estado /\ estado' \in {"RIEGO_ACTIVO", "BLOQUEO"}
       THEN tEstado' = ahora' ELSE tEstado' = tEstado]_vars

\* C19 witness: the lockout has ended on a tick later than the one that
\* began it, and in IDLE tEstado still holds the time the lockout began.
C19_Witness ==
  /\ op = "loop" /\ estado = "IDLE" /\ lockSalida # Never
  /\ tEstado = tFin /\ tEstado # ahora

\* C20: a tick leaves estado as it was or takes exactly one of
\* IDLE -> RIEGO_ACTIVO, RIEGO_ACTIVO -> BLOQUEO, BLOQUEO -> IDLE, whatever
\* commands it dispatched and whatever the configuration holds; no
\* processCommand() call changes estado.
C20_OnlyCycle ==
  [][op' = "loop" =>
       /\ \/ estado' = estado
          \/ <<estado, estado'>> \in {<<"IDLE", "RIEGO_ACTIVO">>,
                                      <<"RIEGO_ACTIVO", "BLOQUEO">>,
                                      <<"BLOQUEO", "IDLE">>}
       /\ \A i \in DOMAIN log' : log'[i].post.estado = estado]_vars

\* C20 witness: a tick has ended the lockout on soil drier than the
\* setpoint and stopped in IDLE; the watering has to wait for the next tick.
C20_Witness ==
  /\ op = "loop" /\ estado = "IDLE" /\ pin = "LOW"
  /\ lockSalida # Never
  /\ humedadPorcentaje(adc) < setpoint

====
